---------------------------- MODULE Spec2Model ----------------------------
(***************************************************************************)
(* Progress tracking of the Learn Kannada app: the progress table, the     *)
(* progress server actions (createProgressAction, updateProgressAction)    *)
(* and the gamification rule updateProgressWithGamificationAction, which   *)
(* the specification calls recordActivity.  A recordActivity call is the   *)
(* steps its awaits separate: the database runs the select of the latest   *)
(* record; the call resumes, reads the clock and computes updatedData; the *)
(* database runs the update or insert and the call returns the row.  Steps *)
(* of different calls and of the clock interleave freely.                  *)
(***************************************************************************)
EXTENDS Integers, Sequences, FiniteSets, TLC

(***************************************************************************)
(* Bounds of the model.                                                    *)
(***************************************************************************)
MaxRecords == 2      \* rows the progress table may ever hold
MaxOps == 2          \* server actions invoked in one behaviour of Spec
MaxCalls == 3        \* recordActivity calls in one behaviour of SpecActivity
MaxAwards == 15      \* recordActivity calls in one behaviour of SpecBadges
MaxWindows == 2      \* the clock stops after this many streak windows
MaxMessages == 3     \* messages sent to the chat room
MaxLessons == 2      \* rows the lessons table may ever hold
MaxMounts == 2       \* runs of the effect of the chat page

(***************************************************************************)
(* Program constants.                                                      *)
(***************************************************************************)
XP_PER_EXERCISE == 10

BADGE_THRESHOLDS ==
    << [threshold |-> 50, badgeName |-> "Learner"],
       [threshold |-> 150, badgeName |-> "Scholar"],
       [threshold |-> 300, badgeName |-> "Master"] >>

STREAK_WINDOW == 24 * 60 * 60 * 1000

(***************************************************************************)
(* Input domains.                                                          *)
(***************************************************************************)
Users == {"u1", "u2"}
\* the users that have a row in the profiles table
Profiles == Users
EmptyUser == ""
Lessons == {"l1"}
NoLesson == "null"
Calls == {1, 2}
RecordIds == 1..MaxRecords
Undefined == [undefined |-> TRUE]

\* the lessonId, xp, streak and badges a caller of createProgressAction supplies
ProgressInputs ==
    { [lessonId |-> NoLesson, xp |-> 0, streak |-> 0, badges |-> <<>>],
      [lessonId |-> "l1", xp |-> 40, streak |-> 3, badges |-> <<"beginner">>],
      [lessonId |-> NoLesson, xp |-> 290, streak |-> 5, badges |-> <<"Scholar">>] }
\* the clock advances by a millisecond or by a streak window and is read
\* at a window start or a millisecond after it
TimeSteps == {1, STREAK_WINDOW}
Offsets == {0, 1}

VARIABLES records, nextId, now, pc, userId, lessonId, existingProgress,
          updatedData, result, response, ops, budget,
          lessons,      \* the ids of the rows of the lessons table
          nextLesson,   \* the number of the next row inserted into lessons
          stmts,        \* the statements each call has sent to the database
          days,         \* per user, the days on which an activity was recorded
          submission,   \* the last exercise submission and its result
          invoked,      \* the last progress CRUD action and its database outcome
          pending,      \* update statements built and not yet run by the database
          profile,      \* the Stripe fields of the row of each user in profiles
          hook,         \* the webhook request in progress and its response
          chatTable,    \* the rows of chat_messages, in order of created_at
          messages,     \* the message list the chat page displays
          mounted,      \* the effect of the chat page is active
          fetch,        \* the fetches of the chat page, one per run of its effect
          subscribed,   \* the realtime channel of the chat page is joined
          events        \* INSERT events on their way to the chat page

vars == <<records, nextId, now, pc, userId, lessonId, existingProgress,
          updatedData, result, response, ops, budget, lessons, nextLesson,
          stmts, days, submission, invoked, pending, profile, hook, chatTable,
          messages, mounted, fetch, subscribed, events>>

callVars == <<pc, userId, lessonId, existingProgress, updatedData, result>>

\* what the progress actions other than recordActivity leave alone
sideVars == <<lessons, nextLesson, stmts, days, submission>>

\* the chat page and its table
chatVars == <<chatTable, messages, mounted, fetch, subscribed, events>>

\* the state of the Stripe webhook and of the chat page
outerVars == <<profile, hook, chatVars>>

\* what the recordActivity, lesson and exercise actions leave alone
restVars == <<pending, outerVars>>

NoStmts == [select |-> 0, update |-> 0, insert |-> 0]

\* the day of a timestamp
Day(t) == t \div STREAK_WINDOW

\* the calls in flight occupy the lowest slots
FreeSlot(c) == pc[c] = "idle" /\ \A d \in Calls : d < c => pc[d] # "idle"

(***************************************************************************)
(* Helpers on rows and arrays.                                             *)
(***************************************************************************)
Includes(arr, x) == \E i \in 1..Len(arr) : arr[i] = x

Elements(arr) == {arr[i] : i \in 1..Len(arr)}

\* drizzle's .set(data): the fields of data replace those of the row
SetFields(row, data) ==
    [f \in DOMAIN row |-> IF f \in DOMAIN data THEN data[f] ELSE row[f]]

RowsOf(u) == {id \in RecordIds : records[id] # Undefined /\ records[id].userId = u}

\* variant: the order is ascending, the first row is the oldest
LatestRowsOldest(u) ==
    {id \in RowsOf(u) :
        \A other \in RowsOf(u) : records[id].updatedAt <= records[other].updatedAt}

\* variant: the select has no where clause
LatestRowsAnyUser(u) ==
    {id \in RecordIds :
        /\ records[id] # Undefined
        /\ \A other \in RecordIds :
              records[other] # Undefined
              => records[other].updatedAt <= records[id].updatedAt}

\* .where(eq(userId)).orderBy(desc(updatedAt)).limit(1): the candidates for
\* the first row; rows with equal updatedAt come in an order the database
\* chooses
LatestRows(u) ==
    {id \in RowsOf(u) :
        \A other \in RowsOf(u) : records[other].updatedAt <= records[id].updatedAt}

(***************************************************************************)
(* The gamification rule.                                                  *)
(***************************************************************************)
\* variant: the award is only the fallback of a missing xp
NewXpFallback(existing) ==
    IF existing = Undefined \/ existing.xp = 0 THEN XP_PER_EXERCISE ELSE existing.xp

\* (existingProgress?.xp || 0) + XP_PER_EXERCISE
NewXp(existing) ==
    (IF existing = Undefined THEN 0 ELSE existing.xp) + XP_PER_EXERCISE

\* variant: the else branch of the first activity is missing
NewStreakNoFirst(existing, t) ==
    IF existing # Undefined
    THEN LET timeDiff == t - existing.updatedAt
         IN  IF timeDiff <= STREAK_WINDOW THEN existing.streak + 1
             ELSE IF timeDiff > STREAK_WINDOW * 2 THEN 1
             ELSE existing.streak
    ELSE 0

\* variant: newStreak = 1 in place of newStreak += 1
NewStreakAssign(existing, t) ==
    IF existing # Undefined
    THEN LET timeDiff == t - existing.updatedAt
         IN  IF timeDiff <= STREAK_WINDOW THEN 1
             ELSE IF timeDiff > STREAK_WINDOW * 2 THEN 1
             ELSE existing.streak
    ELSE 1

\* variant: the reset waits for three windows
NewStreakLateReset(existing, t) ==
    IF existing # Undefined
    THEN LET timeDiff == t - existing.updatedAt
         IN  IF timeDiff <= STREAK_WINDOW THEN existing.streak + 1
             ELSE IF timeDiff > STREAK_WINDOW * 3 THEN 1
             ELSE existing.streak
    ELSE 1

\* variant: the reset starts after one window
NewStreakEarlyReset(existing, t) ==
    IF existing # Undefined
    THEN LET timeDiff == t - existing.updatedAt
         IN  IF timeDiff <= STREAK_WINDOW THEN existing.streak + 1
             ELSE IF timeDiff > STREAK_WINDOW THEN 1
             ELSE existing.streak
    ELSE 1

\* newStreak after the if/else on existingProgress and timeDiff
NewStreak(existing, t) ==
    IF existing # Undefined
    THEN LET timeDiff == t - existing.updatedAt
         IN  IF timeDiff <= STREAK_WINDOW THEN existing.streak + 1
             ELSE IF timeDiff > STREAK_WINDOW * 2 THEN 1
             ELSE existing.streak
    ELSE 1

RECURSIVE AwardFrom(_, _, _)
AwardFrom(i, badges, newXp) ==
    IF i > Len(BADGE_THRESHOLDS) THEN badges
    ELSE LET e == BADGE_THRESHOLDS[i]
         IN  IF newXp >= e.threshold /\ ~Includes(badges, e.badgeName)
             THEN AwardFrom(i + 1, Append(badges, e.badgeName), newXp)
             ELSE AwardFrom(i + 1, badges, newXp)

\* variant: a badge is awarded only by the call that crosses its threshold
NewBadgesOnCrossing(existing, newXp) ==
    LET old == IF existing = Undefined THEN <<>> ELSE existing.badges
        oldXp == IF existing = Undefined THEN 0 ELSE existing.xp
        Cross(i) == /\ newXp >= BADGE_THRESHOLDS[i].threshold
                    /\ oldXp < BADGE_THRESHOLDS[i].threshold
                    /\ ~Includes(old, BADGE_THRESHOLDS[i].badgeName)
        a == IF Cross(1) THEN Append(old, BADGE_THRESHOLDS[1].badgeName) ELSE old
        b == IF Cross(2) THEN Append(a, BADGE_THRESHOLDS[2].badgeName) ELSE a
    IN  IF Cross(3) THEN Append(b, BADGE_THRESHOLDS[3].badgeName) ELSE b

\* variant: a badge needs more xp than its threshold
NewBadgesStrict(existing, newXp) ==
    AwardFrom(1, IF existing = Undefined THEN <<>> ELSE existing.badges,
              newXp - 1)

\* variant: the badge array is rebuilt from the thresholds alone
NewBadgesRebuilt(existing, newXp) == AwardFrom(1, <<>>, newXp)

\* badges after the loop over Object.entries(BADGE_THRESHOLDS)
NewBadges(existing, newXp) ==
    AwardFrom(1, IF existing = Undefined THEN <<>> ELSE existing.badges, newXp)

\* variant: lessonId is always part of updatedData
UpdatedDataWithLesson(existing, l, t) ==
    [xp |-> NewXp(existing),
     streak |-> NewStreak(existing, t),
     badges |-> NewBadges(existing, NewXp(existing)),
     updatedAt |-> t, lessonId |-> l]

\* updatedData: lessonId is part of it only when a lessonId was supplied
UpdatedData(existing, l, t) ==
    LET base == [xp |-> NewXp(existing),
                 streak |-> NewStreak(existing, t),
                 badges |-> NewBadges(existing, NewXp(existing)),
                 updatedAt |-> t]
    IN  IF l # NoLesson
        THEN [xp |-> base.xp, streak |-> base.streak, badges |-> base.badges,
              updatedAt |-> t, lessonId |-> l]
        ELSE base

Failure(msg) == [isSuccess |-> FALSE, message |-> msg, data |-> Undefined]

Success(msg, row) == [isSuccess |-> TRUE, message |-> msg, data |-> row]

(***************************************************************************)
(* The state outside the progress actions when nothing has happened: no    *)
(* CRUD action invoked, free profiles, no webhook request, an empty chat   *)
(* table and a chat page that is not mounted.                              *)
(***************************************************************************)
NoValue == "null"

\* membershipEnum.enumValues, by position: [0] and [1] of the source
MembershipValues == <<"enumValues[0]", "enumValues[1]">>

NoHook == [pc |-> "idle"]

Elsewhere ==
    /\ invoked = [action |-> "none", rejected |-> FALSE]
    /\ pending = [c \in Calls |-> Undefined]
    /\ profile = [u \in Profiles |->
                    [membership |-> MembershipValues[1],
                     stripeCustomerId |-> NoValue,
                     stripeSubscriptionId |-> NoValue]]
    /\ hook = [r \in Calls |-> NoHook]
    /\ chatTable = <<>>
    /\ messages = <<>>
    /\ mounted = FALSE
    /\ fetch = <<>>
    /\ subscribed = FALSE
    /\ events = <<>>

(***************************************************************************)
(* Initial state: an empty progress table, no call in flight.              *)
(***************************************************************************)
Init ==
    /\ records = [id \in RecordIds |-> Undefined]
    /\ nextId = 1
    /\ now = 0
    /\ pc = [c \in Calls |-> "idle"]
    /\ userId = [c \in Calls |-> "u1"]
    /\ lessonId = [c \in Calls |-> NoLesson]
    /\ existingProgress = [c \in Calls |-> Undefined]
    /\ updatedData = [c \in Calls |-> Undefined]
    /\ result = [c \in Calls |-> Undefined]
    /\ response = Undefined
    /\ ops = 0
    /\ budget = MaxOps
    /\ lessons = Lessons
    /\ nextLesson = Cardinality(Lessons) + 1
    /\ stmts = [c \in Calls |-> NoStmts]
    /\ days = [u \in Users \cup {EmptyUser} |-> {}]
    /\ submission = Undefined
    /\ Elsewhere

(***************************************************************************)
(* The clock.                                                              *)
(***************************************************************************)
Tick ==
    /\ \E d \in TimeSteps :
          /\ (now + d) \div STREAK_WINDOW <= MaxWindows
          /\ (now + d) % STREAK_WINDOW \in Offsets
          /\ now' = now + d
    /\ UNCHANGED <<records, nextId, response, ops>>
    /\ UNCHANGED <<callVars, budget, sideVars>>
    /\ UNCHANGED <<invoked, restVars>>

(***************************************************************************)
(* updateProgressWithGamificationAction, first step: the database runs the *)
(* select of the call.                                                     *)
(***************************************************************************)
ReadWith(c, u, l, existing) ==
    /\ userId' = [userId EXCEPT ![c] = u]
    /\ lessonId' = [lessonId EXCEPT ![c] = l]
    /\ existingProgress' = [existingProgress EXCEPT ![c] = existing]
    /\ pc' = [pc EXCEPT ![c] = "select"]
    /\ ops' = ops + 1
    /\ stmts' = [stmts EXCEPT ![c].select = @ + 1]
    /\ UNCHANGED <<records, nextId, now, updatedData, result, response,
                   budget, lessons, nextLesson, days, submission>>
    /\ UNCHANGED <<invoked, restVars>>

Read(c) ==
    /\ FreeSlot(c)
    /\ ops < budget
    /\ \E u \in Users, l \in Lessons \cup lessons \cup {NoLesson} :
          IF LatestRows(u) = {}
          THEN ReadWith(c, u, l, Undefined)
          ELSE \E id \in LatestRows(u) : ReadWith(c, u, l, records[id])

\* a call with an empty userId: the code does not test it and runs the select
ReadEmpty(c) ==
    /\ FreeSlot(c)
    /\ ops < budget
    /\ \E l \in Lessons \cup {NoLesson} :
          IF LatestRows(EmptyUser) = {}
          THEN ReadWith(c, EmptyUser, l, Undefined)
          ELSE \E id \in LatestRows(EmptyUser) :
                  ReadWith(c, EmptyUser, l, records[id])

\* the select is rejected: the catch block returns the failure result
ReadFail(c) ==
    /\ FreeSlot(c)
    /\ ops < budget
    /\ result' = [result EXCEPT
                    ![c] = Failure("Failed to update progress with gamification")]
    /\ pc' = [pc EXCEPT ![c] = "done"]
    /\ ops' = ops + 1
    /\ stmts' = [stmts EXCEPT ![c].select = @ + 1]
    /\ UNCHANGED <<records, nextId, now, userId, lessonId, existingProgress,
                   updatedData, response, budget, lessons, nextLesson, days, submission>>
    /\ UNCHANGED <<invoked, restVars>>

(***************************************************************************)
(* Second step: the call resumes after the await of the select, reads the  *)
(* clock (new Date()) and computes updatedData, up to the await of the     *)
(* write.                                                                  *)
(***************************************************************************)
Resume(c) ==
    /\ pc[c] = "select"
    /\ updatedData' = [updatedData EXCEPT
                         ![c] = UpdatedData(existingProgress[c], lessonId[c], now)]
    /\ pc' = [pc EXCEPT ![c] = "write"]
    /\ UNCHANGED <<records, nextId, now, userId, lessonId, existingProgress,
                   result, response, ops, budget, sideVars>>
    /\ UNCHANGED <<invoked, restVars>>

(***************************************************************************)
(* Third step: the update of the row that was read, or the insert of a     *)
(* new row, and the return of the row the statement returned.              *)
(***************************************************************************)
\* the foreign keys of a progress row: the database rejects a row whose
\* userId has no profile or whose lessonId has no lesson
LessonKey(c) == lessonId[c] = NoLesson \/ lessonId[c] \in lessons
\* variant: progress.userId does not reference the profiles
ProfileKeyUnchecked(c) == TRUE
ProfileKey(c) == userId[c] \in Profiles

\* the activity of the call is on record for its user
Recorded(c) ==
    [days EXCEPT ![userId[c]] = @ \cup {Day(updatedData[c].updatedAt)}]

NewRow(c) ==
    [id |-> nextId, userId |-> userId[c], lessonId |-> lessonId[c],
     xp |-> updatedData[c].xp, streak |-> updatedData[c].streak,
     badges |-> updatedData[c].badges,
     createdAt |-> updatedData[c].updatedAt,
     updatedAt |-> updatedData[c].updatedAt]

\* variant: the update adds the award to the xp the row holds when it runs
WriteUpdateAtomic(c) ==
    /\ pc[c] = "write"
    /\ existingProgress[c] # Undefined
    /\ LET id == existingProgress[c].id
           row == SetFields(SetFields(records[id], updatedData[c]),
                            [xp |-> records[id].xp + XP_PER_EXERCISE])
       IN  /\ records[id] # Undefined
           /\ LessonKey(c)
           /\ records' = [records EXCEPT ![id] = row]
           /\ result' = [result EXCEPT ![c] =
                 Success("Progress updated with gamification successfully", row)]
    /\ days' = Recorded(c)
    /\ pc' = [pc EXCEPT ![c] = "done"]
    /\ stmts' = [stmts EXCEPT ![c].update = @ + 1]
    /\ UNCHANGED <<nextId, now, userId, lessonId, existingProgress,
                   updatedData, response, ops, budget, lessons, nextLesson, submission>>
    /\ UNCHANGED <<invoked, restVars>>

\* variant: the insert is not in an else branch and follows the update
WriteUpdateAndInsert(c) ==
    /\ pc[c] = "write"
    /\ existingProgress[c] # Undefined
    /\ records[existingProgress[c].id] # Undefined
    /\ nextId <= MaxRecords
    /\ LessonKey(c)
    /\ records' = [records EXCEPT
                     ![existingProgress[c].id] = SetFields(@, updatedData[c]),
                     ![nextId] = NewRow(c)]
    /\ nextId' = nextId + 1
    /\ result' = [result EXCEPT ![c] =
          Success("Progress updated with gamification successfully", NewRow(c))]
    /\ days' = Recorded(c)
    /\ pc' = [pc EXCEPT ![c] = "done"]
    /\ stmts' = [stmts EXCEPT ![c].update = @ + 1, ![c].insert = @ + 1]
    /\ UNCHANGED <<now, userId, lessonId, existingProgress, updatedData,
                   response, ops, budget, lessons, nextLesson, submission>>
    /\ UNCHANGED <<invoked, restVars>>

WriteUpdate(c) ==
    /\ pc[c] = "write"
    /\ existingProgress[c] # Undefined
    /\ LET id == existingProgress[c].id
       IN  IF records[id] # Undefined
           THEN /\ LessonKey(c)
                /\ records' = [records EXCEPT
                                 ![id] = SetFields(records[id], updatedData[c])]
                /\ result' = [result EXCEPT ![c] =
                      Success("Progress updated with gamification successfully",
                              SetFields(records[id], updatedData[c]))]
                /\ days' = Recorded(c)
           ELSE /\ records' = records
                /\ result' = [result EXCEPT ![c] =
                      Success("Progress updated with gamification successfully",
                              Undefined)]
                /\ days' = days
    /\ pc' = [pc EXCEPT ![c] = "done"]
    /\ stmts' = [stmts EXCEPT ![c].update = @ + 1]
    /\ UNCHANGED <<nextId, now, userId, lessonId, existingProgress,
                   updatedData, response, ops, budget, lessons, nextLesson, submission>>
    /\ UNCHANGED <<invoked, restVars>>

WriteInsert(c) ==
    /\ pc[c] = "write"
    /\ existingProgress[c] = Undefined
    /\ nextId <= MaxRecords
    /\ ProfileKey(c)
    /\ LessonKey(c)
    /\ records' = [records EXCEPT ![nextId] = NewRow(c)]
    /\ nextId' = nextId + 1
    /\ result' = [result EXCEPT ![c] =
          Success("Progress updated with gamification successfully", NewRow(c))]
    /\ days' = Recorded(c)
    /\ pc' = [pc EXCEPT ![c] = "done"]
    /\ stmts' = [stmts EXCEPT ![c].insert = @ + 1]
    /\ UNCHANGED <<now, userId, lessonId, existingProgress, updatedData,
                   response, ops, budget, lessons, nextLesson, submission>>
    /\ UNCHANGED <<invoked, restVars>>

\* variant: the statement takes effect although its rejection is reported
WriteFailPartial(c) ==
    /\ pc[c] = "write"
    /\ existingProgress[c] # Undefined
    /\ records[existingProgress[c].id] # Undefined
    /\ records' = [records EXCEPT ![existingProgress[c].id] =
                     SetFields(@, updatedData[c])]
    /\ result' = [result EXCEPT
                    ![c] = Failure("Failed to update progress with gamification")]
    /\ pc' = [pc EXCEPT ![c] = "done"]
    /\ stmts' = [stmts EXCEPT ![c].update = @ + 1]
    /\ UNCHANGED <<nextId, now, userId, lessonId, existingProgress,
                   updatedData, response, ops, budget, lessons, nextLesson, days,
                   submission>>
    /\ UNCHANGED <<invoked, restVars>>

\* the update or insert is rejected: nothing is written
WriteFail(c) ==
    /\ pc[c] = "write"
    /\ result' = [result EXCEPT
                    ![c] = Failure("Failed to update progress with gamification")]
    /\ pc' = [pc EXCEPT ![c] = "done"]
    /\ stmts' = [stmts EXCEPT ![c] =
                   IF existingProgress[c] # Undefined
                   THEN [@ EXCEPT !.update = @ + 1]
                   ELSE [@ EXCEPT !.insert = @ + 1]]
    /\ UNCHANGED <<records, nextId, now, userId, lessonId, existingProgress,
                   updatedData, response, ops, budget, lessons, nextLesson, days,
                   submission>>
    /\ UNCHANGED <<invoked, restVars>>

\* the caller has taken the result; the slot serves the next call
Return(c) ==
    /\ pc[c] = "done"
    /\ pc' = [pc EXCEPT ![c] = "idle"]
    /\ userId' = [userId EXCEPT ![c] = "u1"]
    /\ lessonId' = [lessonId EXCEPT ![c] = NoLesson]
    /\ existingProgress' = [existingProgress EXCEPT ![c] = Undefined]
    /\ updatedData' = [updatedData EXCEPT ![c] = Undefined]
    /\ result' = [result EXCEPT ![c] = Undefined]
    /\ stmts' = [stmts EXCEPT ![c] = NoStmts]
    /\ UNCHANGED <<records, nextId, now, response, ops, budget, lessons, nextLesson, days,
                   submission>>
    /\ UNCHANGED <<invoked, restVars>>

(***************************************************************************)
(* createProgressAction and updateProgressAction.                          *)
(***************************************************************************)
createProgressAction ==
    /\ ops < budget
    /\ nextId <= MaxRecords
    /\ \E u \in Users, p \in ProgressInputs :
          LET row == [id |-> nextId, userId |-> u, lessonId |-> p.lessonId,
                      xp |-> p.xp, streak |-> p.streak, badges |-> p.badges,
                      createdAt |-> now, updatedAt |-> now]
          IN  /\ records' = [records EXCEPT ![nextId] = row]
              /\ response' = Success("Progress created successfully", row)
    /\ nextId' = nextId + 1
    /\ ops' = ops + 1
    /\ UNCHANGED <<now>>
    /\ UNCHANGED <<callVars, budget, sideVars>>
    /\ invoked' = [action |-> "createProgressAction", rejected |-> FALSE]
    /\ UNCHANGED restVars

createProgressFail ==
    /\ ops < budget
    /\ response' = Failure("Failed to create progress")
    /\ ops' = ops + 1
    /\ UNCHANGED <<records, nextId, now>>
    /\ UNCHANGED <<callVars, budget, sideVars>>
    /\ invoked' = [action |-> "createProgressAction", rejected |-> TRUE]
    /\ UNCHANGED restVars

UpdateInputs ==
    {[xp |-> 200], [streak |-> 0], [badges |-> <<>>]}

\* the statement slots in use hold the lowest numbers
FreeStatement(c) ==
    pending[c] = Undefined /\ \A d \in Calls : d < c => pending[d] # Undefined

\* the update of a built statement: .set(data) and the updatedAt that
\* $onUpdate(() => new Date()) gave when the statement was built
Updated(row, st) == SetFields(SetFields(row, st.data), [updatedAt |-> st.updatedAt])

\* updateProgressAction builds its update statement, $onUpdate reads the
\* clock, and the action awaits the database
updateProgressAction ==
    /\ ops < budget
    /\ \E c \in Calls, id \in RecordIds, data \in UpdateInputs :
          /\ FreeStatement(c)
          /\ pending' = [pending EXCEPT ![c] =
                [action |-> "updateProgressAction", id |-> id, data |-> data,
                 updatedAt |-> now]]
    /\ ops' = ops + 1
    /\ UNCHANGED <<records, nextId, now, response, invoked>>
    /\ UNCHANGED <<callVars, budget, sideVars, outerVars>>

\* the database runs the statement and the action returns
updateProgressReturn ==
    /\ \E c \in Calls :
          /\ pending[c] # Undefined
          /\ pending[c].action = "updateProgressAction"
          /\ LET st == pending[c]
             IN  IF records[st.id] # Undefined
                 THEN /\ records' = [records EXCEPT
                                       ![st.id] = Updated(records[st.id], st)]
                      /\ response' = Success("Progress updated successfully",
                                             Updated(records[st.id], st))
                 ELSE /\ records' = records
                      /\ response' = Failure("Progress record not found")
          /\ pending' = [pending EXCEPT ![c] = Undefined]
    /\ invoked' = [action |-> "updateProgressAction", rejected |-> FALSE]
    /\ UNCHANGED <<nextId, now, ops>>
    /\ UNCHANGED <<callVars, budget, sideVars, outerVars>>

\* the database rejects the statement
updateProgressFail ==
    /\ \E c \in Calls :
          /\ pending[c] # Undefined
          /\ pending[c].action = "updateProgressAction"
          /\ pending' = [pending EXCEPT ![c] = Undefined]
    /\ response' = Failure("Failed to update progress")
    /\ invoked' = [action |-> "updateProgressAction", rejected |-> TRUE]
    /\ UNCHANGED <<records, nextId, now, ops>>
    /\ UNCHANGED <<callVars, budget, sideVars, outerVars>>

(***************************************************************************)
(* getProgressByUserIdAction, and updateProgressAction of the variant of   *)
(* the progress actions that authenticates its caller.                     *)
(***************************************************************************)
getProgressByUserIdAction ==
    /\ ops < budget
    /\ \E u \in Users :
          response' = Success("Progress retrieved successfully",
                              {records[id] : id \in RowsOf(u)})
    /\ invoked' = [action |-> "getProgressByUserIdAction", rejected |-> FALSE]
    /\ ops' = ops + 1
    /\ UNCHANGED <<records, nextId, now, callVars, budget, sideVars, restVars>>

getProgressFail ==
    /\ ops < budget
    /\ response' = Failure("Failed to retrieve progress")
    /\ invoked' = [action |-> "getProgressByUserIdAction", rejected |-> TRUE]
    /\ ops' = ops + 1
    /\ UNCHANGED <<records, nextId, now, callVars, budget, sideVars, restVars>>

\* auth() of a request without a session
NoAuth == "null"

\* updateProgressAction with auth(): without a session it returns at once;
\* with one it builds the update, filtered by the id alone, and awaits the
\* database
AuthUpdateProgressAction ==
    /\ ops < budget
    /\ \E auth \in Users \cup {NoAuth}, id \in RecordIds, data \in UpdateInputs :
          IF auth = NoAuth
          THEN /\ invoked' = [action |-> "AuthUpdateProgressAction",
                              rejected |-> FALSE, caller |-> auth, id |-> id]
               /\ response' = Failure(
                     "Unauthorized: Please sign in to update progress")
               /\ pending' = pending
          ELSE /\ \E c \in Calls :
                     /\ FreeStatement(c)
                     /\ pending' = [pending EXCEPT ![c] =
                           [action |-> "AuthUpdateProgressAction", id |-> id,
                            data |-> data, updatedAt |-> now, caller |-> auth]]
               /\ UNCHANGED <<invoked, response>>
    /\ ops' = ops + 1
    /\ UNCHANGED <<records, nextId, now, callVars, budget, sideVars, outerVars>>

\* the database runs the statement and the action returns
AuthUpdateProgressReturn ==
    /\ \E c \in Calls :
          /\ pending[c] # Undefined
          /\ pending[c].action = "AuthUpdateProgressAction"
          /\ LET st == pending[c]
             IN  /\ invoked' = [action |-> "AuthUpdateProgressAction",
                                rejected |-> FALSE, caller |-> st.caller,
                                id |-> st.id]
                 /\ IF records[st.id] # Undefined
                    THEN /\ records' = [records EXCEPT
                                          ![st.id] = Updated(records[st.id], st)]
                         /\ response' = Success("Progress updated successfully",
                                                Updated(records[st.id], st))
                    ELSE /\ records' = records
                         /\ response' = Failure(
                               "Progress record not found or unauthorized")
          /\ pending' = [pending EXCEPT ![c] = Undefined]
    /\ UNCHANGED <<nextId, now, ops, callVars, budget, sideVars, outerVars>>

\* the database rejects the statement
AuthUpdateProgressFail ==
    /\ \E c \in Calls :
          /\ pending[c] # Undefined
          /\ pending[c].action = "AuthUpdateProgressAction"
          /\ invoked' = [action |-> "AuthUpdateProgressAction",
                         rejected |-> TRUE, caller |-> pending[c].caller,
                         id |-> pending[c].id]
          /\ pending' = [pending EXCEPT ![c] = Undefined]
    /\ response' = Failure("Failed to update progress due to a server error")
    /\ UNCHANGED <<records, nextId, now, ops, callVars, budget, sideVars,
                   outerVars>>

(***************************************************************************)
(* createLessonAction and deleteLessonAction.  A new lesson gets an id no  *)
(* row ever had; the delete of a lesson cascades to the progress rows that *)
(* reference it.                                                           *)
(***************************************************************************)
\* the ids of the lessons in the order of their creation
LessonNames == <<"l1", "l2", "l3", "l4">>

\* the lesson a caller supplies: complete, or without a title
LessonInputs == {[title |-> "Greetings", content |-> "Namaskara", level |-> "beginner"],
                 [title |-> "", content |-> "Namaskara", level |-> "beginner"]}

createLessonAction ==
    /\ ops < budget
    /\ nextLesson <= MaxLessons
    /\ \E auth \in Users \cup {NoAuth}, lesson \in LessonInputs :
          IF auth = NoAuth
          THEN /\ response' = Failure(
                     "Unauthorized: You must be logged in to create a lesson")
               /\ UNCHANGED <<lessons, nextLesson>>
          ELSE IF lesson.title = "" \/ lesson.content = "" \/ lesson.level = ""
          THEN /\ response' = Failure(
                     "Missing required fields: title, content, or level")
               /\ UNCHANGED <<lessons, nextLesson>>
          ELSE /\ lessons' = lessons \cup {LessonNames[nextLesson]}
               /\ nextLesson' = nextLesson + 1
               /\ response' = Success("Lesson created successfully",
                     [id |-> LessonNames[nextLesson], title |-> lesson.title,
                      content |-> lesson.content, level |-> lesson.level])
    /\ ops' = ops + 1
    /\ UNCHANGED <<records, nextId, now, callVars, budget, stmts, days,
                   submission>>
    /\ UNCHANGED <<invoked, restVars>>

createLessonFail ==
    /\ ops < budget
    /\ response' = Failure("Failed to create lesson due to a server error")
    /\ ops' = ops + 1
    /\ UNCHANGED <<records, nextId, now, callVars, budget, sideVars>>
    /\ UNCHANGED <<invoked, restVars>>

deleteLessonAction ==
    /\ ops < budget
    /\ \E auth \in Users \cup {NoAuth}, id \in Lessons \cup lessons :
          IF auth = NoAuth
          THEN /\ response' = Failure(
                     "Unauthorized: You must be logged in to delete a lesson")
               /\ UNCHANGED <<lessons, nextLesson, records>>
          ELSE IF id \notin lessons
          THEN /\ response' = Failure("Lesson not found")
               /\ UNCHANGED <<lessons, nextLesson, records>>
          ELSE /\ lessons' = lessons \ {id}
               /\ nextLesson' = nextLesson
               /\ records' = [r \in RecordIds |->
                                IF records[r] # Undefined /\ records[r].lessonId = id
                                THEN Undefined ELSE records[r]]
               /\ response' = Success("Lesson deleted successfully", Undefined)
    /\ ops' = ops + 1
    /\ UNCHANGED <<nextId, now, callVars, budget, stmts, days, submission>>
    /\ UNCHANGED <<invoked, restVars>>

deleteLessonFail ==
    /\ ops < budget
    /\ response' = Failure("Failed to delete lesson due to a server error")
    /\ ops' = ops + 1
    /\ UNCHANGED <<records, nextId, now, callVars, budget, sideVars>>
    /\ UNCHANGED <<invoked, restVars>>

(***************************************************************************)
(* submitExerciseAction, and handleSubmit of the practice page.            *)
(***************************************************************************)
\* the exercises table: the content of each exercise
Exercises ==
    [e \in {"e1", "e2"} |->
        IF e = "e1" THEN [correctAnswer |-> "Namaskara"]
        ELSE [prompt |-> "Speak"]]

\* exerciseId arguments: two exercises, an id without a row, the empty id
ExerciseIds == {"e1", "e2", "e9", ""}

\* the strings a response is made of
Responses == {"", "Namaskara", "namaskara", " Namaskara ", "hello"}

\* userResponse: string | object
UserResponses ==
    [type : {"string"}, value : Responses]
    \cup [type : {"object"}, response : Responses]

\* s.trim().toLowerCase()
TrimLower(s) ==
    IF s \in {"Namaskara", " Namaskara ", "namaskara"} THEN "namaskara" ELSE s

\* !userResponse: the empty string is falsy, an object never is
Falsy(userResponse) == userResponse.type = "string" /\ userResponse.value = ""

IsCorrect(userResponse, correctAnswer) ==
    /\ userResponse.type = "string"
    /\ TrimLower(userResponse.value) = TrimLower(correctAnswer)

Score(userResponse, correctAnswer) ==
    IF IsCorrect(userResponse, correctAnswer)
    THEN [score |-> 1, feedback |-> "Correct! Well done."]
    ELSE [score |-> 0, feedback |-> "Incorrect. Try again!"]

SubmitResult(auth, exerciseId, userResponse) ==
    IF auth = NoAuth
    THEN Failure("Unauthorized: Please sign in to submit exercises")
    ELSE IF exerciseId = "" \/ Falsy(userResponse)
    THEN Failure("Exercise ID and user response are required")
    ELSE IF exerciseId \notin DOMAIN Exercises
    THEN Failure("Exercise not found")
    ELSE IF "correctAnswer" \notin DOMAIN Exercises[exerciseId]
    THEN Failure("Exercise content lacks a correct answer for scoring")
    ELSE Success("Exercise submitted successfully",
                 Score(userResponse, Exercises[exerciseId].correctAnswer))

\* the action only scores the response: it sends no statement to the
\* progress table
submitExerciseAction ==
    /\ ops < budget
    /\ \E auth \in Users \cup {NoAuth}, exerciseId \in ExerciseIds,
          userResponse \in UserResponses :
          submission' = [userId |-> auth, exerciseId |-> exerciseId,
                         handler |-> "submitExerciseAction",
                         userResponse |-> userResponse,
                         result |-> SubmitResult(auth, exerciseId, userResponse)]
    /\ ops' = ops + 1
    /\ UNCHANGED <<records, nextId, now, response, callVars, budget, lessons, nextLesson,
                   stmts, days>>
    /\ UNCHANGED <<invoked, restVars>>

\* the select of the exercise is rejected
submitExerciseFail ==
    /\ ops < budget
    /\ \E auth \in Users, exerciseId \in ExerciseIds \ {""},
          userResponse \in {r \in UserResponses : ~Falsy(r)} :
          submission' = [userId |-> auth, exerciseId |-> exerciseId,
                         handler |-> "submitExerciseAction",
                         userResponse |-> userResponse,
                         result |-> Failure(
                            "Failed to submit exercise due to a server error")]
    /\ ops' = ops + 1
    /\ UNCHANGED <<records, nextId, now, response, callVars, budget, lessons, nextLesson,
                   stmts, days>>
    /\ UNCHANGED <<invoked, restVars>>

\* handleSubmit(response): submits { response } for the exercise of the page,
\* logs a failure, returns nothing
handleSubmit ==
    /\ ops < budget
    /\ \E auth \in Users \cup {NoAuth}, exerciseId \in DOMAIN Exercises,
          r \in Responses :
          submission' = [userId |-> auth, exerciseId |-> exerciseId,
                         handler |-> "handleSubmit",
                         userResponse |-> [type |-> "object", response |-> r],
                         result |-> SubmitResult(auth, exerciseId,
                                       [type |-> "object", response |-> r])]
    /\ ops' = ops + 1
    /\ UNCHANGED <<records, nextId, now, response, callVars, budget, lessons, nextLesson,
                   stmts, days>>
    /\ UNCHANGED <<invoked, restVars>>

\* handleSubmit(response) when the select of the exercise is rejected:
\* submitExerciseAction returns its server error, handleSubmit logs it
handleSubmitFail ==
    /\ ops < budget
    /\ \E auth \in Users, exerciseId \in DOMAIN Exercises, r \in Responses :
          submission' = [userId |-> auth, exerciseId |-> exerciseId,
                         handler |-> "handleSubmit",
                         userResponse |-> [type |-> "object", response |-> r],
                         result |-> Failure(
                            "Failed to submit exercise due to a server error")]
    /\ ops' = ops + 1
    /\ UNCHANGED <<records, nextId, now, response, callVars, budget, lessons,
                   nextLesson, stmts, days>>
    /\ UNCHANGED <<invoked, restVars>>

(***************************************************************************)
(* The Stripe webhook: POST verifies the signature of the request, and for *)
(* a checkout.session.completed event calls updateStripeCustomerAction and *)
(* then, when the session has a subscription,                              *)
(* manageSubscriptionStatusChangeAction.                                   *)
(***************************************************************************)
\* STRIPE_WEBHOOK_SECRET, and a key that is not the secret
WebhookSecret == "whsec"
Keys == {WebhookSecret, "forged"}

\* metadata.userId of a session: a user with a profile, one without, none
SessionUsers == {"u1", "u9", NoValue}

UnhandledEvent == [type |-> "invoice.paid"]

\* the events a request body carries
Events ==
    [type : {"checkout.session.completed"}, userId : SessionUsers,
     customer : {"cus_1", NoValue}, subscription : {"sub_1", NoValue}]
    \cup {UnhandledEvent}

\* the stripe-signature header of a request with the given body: none, or
\* the signature of this body or of another body under some key
NoSignature == [missing |-> TRUE]

SignaturesFor(body) ==
    {NoSignature} \cup [key : Keys, body : {body, UnhandledEvent}]

\* variant: the event is parsed from the body without verification
ConstructEventUnverified(body, sig, webhookSecret) == TRUE

\* stripe.webhooks.constructEvent(body, sig, webhookSecret) does not throw
ConstructEvent(body, sig, webhookSecret) ==
    sig.key = webhookSecret /\ sig.body = body

\* subscription.status as stripe.subscriptions.retrieve reports it
SubscriptionStatuses == {"active", "trialing", "canceled"}

Reply(status, error) == [status |-> status, error |-> error]

\* a request that POST has received; wrote tells whether a statement of the
\* request has changed a profile
Request(body, sig, secret) ==
    [pc |-> "received", body |-> body, sig |-> sig, secret |-> secret,
     wrote |-> FALSE, reply |-> Undefined]

\* the requests in flight occupy the lowest slots
FreeHook(r) == hook[r] = NoHook /\ \A q \in Calls : q < r => hook[q] # NoHook

\* .set({stripeCustomerId, stripeSubscriptionId: stripeSubscriptionId || null})
\* of updateStripeCustomerAction
CustomerData(stripeCustomerId, stripeSubscriptionId) ==
    [stripeCustomerId |-> stripeCustomerId,
     stripeSubscriptionId |-> stripeSubscriptionId]

\* .set({membership: newMembership, stripeSubscriptionId}) of
\* manageSubscriptionStatusChangeAction for a subscription of this status
SubscriptionData(stripeSubscriptionId, status) ==
    LET isActive == status \in {"active", "trialing"}
        newMembership == IF isActive THEN MembershipValues[2]
                         ELSE MembershipValues[1]
    IN  [membership |-> newMembership,
         stripeSubscriptionId |-> stripeSubscriptionId]

\* db.update(profilesTable).set(data).where(eq(userId))
SetProfile(u, data) ==
    IF u \in DOMAIN profile
    THEN [profile EXCEPT ![u] = SetFields(profile[u], data)]
    ELSE profile

\* POST up to the await of manageSubscriptionStatusChangeAction
WebhookPost ==
    /\ ops < budget
    /\ \E r \in Calls, body \in Events, secret \in {WebhookSecret, NoValue} :
       \E sig \in SignaturesFor(body) :
          LET req == Request(body, sig, secret)
              Done(status, error) ==
                  /\ hook' = [hook EXCEPT ![r] =
                                [req EXCEPT !.pc = "done",
                                            !.reply = Reply(status, error)]]
                  /\ profile' = profile
              updated == SetProfile(body.userId,
                            CustomerData(body.customer, body.subscription))
          IN  /\ FreeHook(r)
              /\ IF sig = NoSignature \/ secret = NoValue
                 THEN Done(400, "Missing webhook signature or secret")
                 ELSE IF ~ConstructEvent(body, sig, secret)
                 THEN Done(400, "Webhook signature verification failed")
                 ELSE IF body.type # "checkout.session.completed"
                 THEN Done(200, NoValue)
                 ELSE IF body.userId = NoValue \/ body.customer = NoValue
                 THEN Done(400,
                         "Missing userId or customerId in session metadata")
                 ELSE IF body.userId \notin Profiles
                 THEN Done(500, "User profile not found or update failed")
                 ELSE /\ profile' = updated
                      /\ hook' = [hook EXCEPT ![r] =
                            IF body.subscription # NoValue
                            THEN [req EXCEPT !.pc = "subscription",
                                             !.wrote = updated # profile]
                            ELSE [req EXCEPT !.pc = "done",
                                             !.wrote = updated # profile,
                                             !.reply = Reply(200, NoValue)]]
    /\ ops' = ops + 1
    /\ UNCHANGED <<records, nextId, now, callVars, budget, sideVars, invoked,
                   pending, chatVars, response>>

\* the update of updateStripeCustomerAction is rejected by the database
WebhookCustomerFail ==
    /\ ops < budget
    /\ \E r \in Calls, body \in Events :
          /\ FreeHook(r)
          /\ body.type = "checkout.session.completed"
          /\ body.userId # NoValue /\ body.customer # NoValue
          /\ hook' = [hook EXCEPT ![r] =
                [Request(body, [key |-> WebhookSecret, body |-> body],
                         WebhookSecret)
                 EXCEPT !.pc = "done",
                        !.reply = Reply(500, "Failed to update customer data")]]
    /\ ops' = ops + 1
    /\ UNCHANGED <<records, nextId, now, callVars, budget, sideVars, invoked,
                   pending, chatVars, response, profile>>

\* manageSubscriptionStatusChangeAction and the response of POST
WebhookSubscription ==
    /\ \E r \in Calls, status \in SubscriptionStatuses :
          LET updated == SetProfile(hook[r].body.userId,
                            SubscriptionData(hook[r].body.subscription, status))
          IN  /\ hook[r].pc = "subscription"
              /\ profile' = updated
              /\ hook' = [hook EXCEPT ![r] =
                    [@ EXCEPT !.pc = "done",
                              !.wrote = @ \/ updated # profile,
                              !.reply = Reply(200, NoValue)]]
    /\ UNCHANGED <<records, nextId, now, callVars, budget, sideVars, invoked,
                   pending, chatVars, response, ops>>

\* stripe.subscriptions.retrieve or the update of the profile throws
WebhookSubscriptionFail ==
    /\ \E r \in Calls :
          /\ hook[r].pc = "subscription"
          /\ hook' = [hook EXCEPT ![r] =
                [@ EXCEPT !.pc = "done",
                          !.reply = Reply(500,
                             "Failed to update subscription status")]]
    /\ UNCHANGED <<records, nextId, now, callVars, budget, sideVars, invoked,
                   pending, chatVars, response, ops, profile>>

\* the response of POST has been sent; the slot serves the next request
WebhookReturn ==
    /\ \E r \in Calls :
          /\ hook[r].pc = "done"
          /\ hook' = [hook EXCEPT ![r] = NoHook]
    /\ UNCHANGED <<records, nextId, now, callVars, budget, sideVars, invoked,
                   pending, chatVars, response, ops, profile>>

(***************************************************************************)
(* The server actions on profiles, called directly: they take no           *)
(* signature and do not call auth().                                       *)
(***************************************************************************)
\* userId arguments: users with a profile and one without
ProfileUsers == Profiles \cup {"u9"}

\* the data a caller of updateProfileAction supplies
ProfileInputs ==
    {[membership |-> MembershipValues[2]], [stripeCustomerId |-> "cus_1"]}

\* the rows .returning() gives: the updated profiles
Returned(updated, users) == {[userId |-> u, row |-> updated[u]] : u \in users}

updateProfileAction ==
    /\ ops < budget
    /\ \E u \in ProfileUsers, data \in ProfileInputs :
          /\ profile' = SetProfile(u, data)
          /\ response' = Success("Profile updated successfully",
                                 Returned(SetProfile(u, data), {u} \cap Profiles))
    /\ ops' = ops + 1
    /\ UNCHANGED <<records, nextId, now, callVars, budget, sideVars, invoked,
                   pending, chatVars, hook>>

updateProfileFail ==
    /\ ops < budget
    /\ response' = Failure("Failed to update profile")
    /\ ops' = ops + 1
    /\ UNCHANGED <<records, nextId, now, callVars, budget, sideVars, invoked,
                   pending, chatVars, hook, profile>>

updateProfileByStripeCustomerIdAction ==
    /\ ops < budget
    /\ \E customerId \in {"cus_1", "cus_9"}, data \in ProfileInputs :
          LET matched == {u \in Profiles :
                            profile[u].stripeCustomerId = customerId}
              updated == [u \in Profiles |->
                            IF u \in matched THEN SetFields(profile[u], data)
                            ELSE profile[u]]
          IN  /\ profile' = updated
              /\ response' = Success(
                    "Profile updated successfully by Stripe customer ID",
                    Returned(updated, matched))
    /\ ops' = ops + 1
    /\ UNCHANGED <<records, nextId, now, callVars, budget, sideVars, invoked,
                   pending, chatVars, hook>>

updateProfileByStripeCustomerIdFail ==
    /\ ops < budget
    /\ response' = Failure("Failed to update profile by Stripe customer ID")
    /\ ops' = ops + 1
    /\ UNCHANGED <<records, nextId, now, callVars, budget, sideVars, invoked,
                   pending, chatVars, hook, profile>>

\* updateStripeCustomerAction called outside the webhook
updateStripeCustomerAction ==
    /\ ops < budget
    /\ \E u \in ProfileUsers \cup {NoValue}, stripeCustomerId \in {"cus_1", NoValue},
          stripeSubscriptionId \in {"sub_1", NoValue} :
          IF u = NoValue \/ stripeCustomerId = NoValue
          THEN /\ response' = Failure(
                     "User ID and Stripe Customer ID are required")
               /\ profile' = profile
          ELSE IF u \notin Profiles
          THEN /\ response' = Failure("User profile not found or update failed")
               /\ profile' = profile
          ELSE /\ profile' = SetProfile(u, CustomerData(stripeCustomerId,
                                                         stripeSubscriptionId))
               /\ response' = Success("Customer data updated successfully",
                                      Undefined)
    /\ ops' = ops + 1
    /\ UNCHANGED <<records, nextId, now, callVars, budget, sideVars, invoked,
                   pending, chatVars, hook>>

updateStripeCustomerFail ==
    /\ ops < budget
    /\ response' = Failure("Failed to update customer data")
    /\ ops' = ops + 1
    /\ UNCHANGED <<records, nextId, now, callVars, budget, sideVars, invoked,
                   pending, chatVars, hook, profile>>

\* manageSubscriptionStatusChangeAction called outside the webhook
manageSubscriptionStatusChangeAction ==
    /\ ops < budget
    /\ \E u \in ProfileUsers \cup {NoValue},
          stripeSubscriptionId \in {"sub_1", NoValue},
          status \in SubscriptionStatuses :
          IF u = NoValue \/ stripeSubscriptionId = NoValue
          THEN /\ response' = Failure(
                     "Subscription ID and user ID are required")
               /\ profile' = profile
          ELSE IF u \notin Profiles
          THEN /\ response' = Failure("User profile not found or update failed")
               /\ profile' = profile
          ELSE LET data == SubscriptionData(stripeSubscriptionId, status)
               IN  /\ profile' = SetProfile(u, data)
                   /\ response' = Success(
                         IF data.membership = MembershipValues[2]
                         THEN "Membership updated to enumValues[1] successfully"
                         ELSE "Membership updated to enumValues[0] successfully",
                         Undefined)
    /\ ops' = ops + 1
    /\ UNCHANGED <<records, nextId, now, callVars, budget, sideVars, invoked,
                   pending, chatVars, hook>>

manageSubscriptionStatusChangeFail ==
    /\ ops < budget
    /\ response' = Failure("Failed to update subscription status")
    /\ ops' = ops + 1
    /\ UNCHANGED <<records, nextId, now, callVars, budget, sideVars, invoked,
                   pending, chatVars, hook, profile>>

(***************************************************************************)
(* The chat page: each run of its effect starts fetchMessages and          *)
(* subscribes a channel to the INSERT events of chat_messages; the cleanup *)
(* of the effect removes the channel; sendMessageAction inserts a row.     *)
(* A message row is [id, content]; ids follow created_at.                  *)
(***************************************************************************)
Contents == {"hi", " hi ", " "}

\* content.trim()
Trim(content) ==
    CASE content = " hi " -> "hi"
      [] content = " " -> ""
      [] OTHER -> content

\* a fetch that has been started; live tells whether the component that
\* started it is still there to take its result
Started == [pc |-> "sent", live |-> TRUE]

\* sendMessageAction(content) of a signed-in user; the database publishes
\* the INSERT to the channel when the page's subscription is active
sendMessageAction ==
    /\ \E content \in Contents :
          IF Trim(content) = "" \/ Len(chatTable) >= MaxMessages
          THEN UNCHANGED <<chatTable, events>>
          ELSE LET newMessage == [id |-> Len(chatTable) + 1,
                                  content |-> Trim(content)]
               IN  /\ chatTable' = Append(chatTable, newMessage)
                   /\ events' = IF subscribed THEN Append(events, newMessage)
                                ELSE events
    /\ UNCHANGED <<records, nextId, now, response, ops, callVars, budget,
                   sideVars, invoked, pending, profile, hook, messages,
                   mounted, fetch, subscribed>>

\* the effect of ChatPage runs with a signed-in user: fetchMessages() is
\* called and the channel is asked to subscribe
ChatMount ==
    /\ ~mounted
    /\ Len(fetch) < MaxMounts
    /\ mounted' = TRUE
    /\ fetch' = Append(fetch, Started)
    /\ UNCHANGED <<records, nextId, now, response, ops, callVars, budget,
                   sideVars, invoked, pending, profile, hook, chatTable,
                   messages, subscribed, events>>

\* isLoaded or user changes while the effect is active: its cleanup removes
\* the channel and the effect runs again
ChatRerun ==
    /\ mounted
    /\ Len(fetch) < MaxMounts
    /\ subscribed' = FALSE
    /\ events' = <<>>
    /\ fetch' = Append(fetch, Started)
    /\ UNCHANGED <<records, nextId, now, response, ops, callVars, budget,
                   sideVars, invoked, pending, profile, hook, chatTable,
                   messages, mounted>>

\* the user signs out while the page is shown: the cleanup removes the
\* channel and the effect returns at once
ChatCleanup ==
    /\ mounted
    /\ mounted' = FALSE
    /\ subscribed' = FALSE
    /\ events' = <<>>
    /\ UNCHANGED <<records, nextId, now, response, ops, callVars, budget,
                   sideVars, invoked, pending, profile, hook, chatTable,
                   messages, fetch>>

\* the page unmounts, with its effect active or after a sign-out: the
\* cleanup of an active effect removes the channel, the state of the
\* component is gone and the answers of its fetches are no longer taken
ChatUnmount ==
    /\ mounted \/ \E i \in 1..Len(fetch) : fetch[i].live
    /\ mounted' = FALSE
    /\ subscribed' = FALSE
    /\ events' = <<>>
    /\ messages' = <<>>
    /\ fetch' = [i \in 1..Len(fetch) |-> [fetch[i] EXCEPT !.live = FALSE]]
    /\ UNCHANGED <<records, nextId, now, response, ops, callVars, budget,
                   sideVars, invoked, pending, profile, hook, chatTable>>

\* the subscription of the channel becomes active
ChannelSubscribed ==
    /\ mounted
    /\ ~subscribed
    /\ subscribed' = TRUE
    /\ UNCHANGED <<records, nextId, now, response, ops, callVars, budget,
                   sideVars, invoked, pending, profile, hook, chatTable,
                   messages, mounted, fetch, events>>

\* the select of fetchMessages runs on the table
FetchSelect ==
    /\ \E i \in 1..Len(fetch) :
          /\ fetch[i].pc = "sent"
          /\ fetch' = [fetch EXCEPT ![i] =
                [pc |-> "selected", live |-> fetch[i].live, data |-> chatTable]]
    /\ UNCHANGED <<records, nextId, now, response, ops, callVars, budget,
                   sideVars, invoked, pending, profile, hook, chatTable,
                   messages, mounted, subscribed, events>>

\* the select fails: fetchMessages logs the error and returns
FetchError ==
    /\ \E i \in 1..Len(fetch) :
          /\ fetch[i].pc = "sent"
          /\ fetch' = [fetch EXCEPT ![i] =
                [pc |-> "failed", live |-> fetch[i].live]]
    /\ UNCHANGED <<records, nextId, now, response, ops, callVars, budget,
                   sideVars, invoked, pending, profile, hook, chatTable,
                   messages, mounted, subscribed, events>>

\* the await of fetchMessages resumes: setMessages(data || [])
FetchReturn ==
    /\ \E i \in 1..Len(fetch) :
          /\ fetch[i].pc = "selected"
          /\ messages' = IF fetch[i].live THEN fetch[i].data ELSE messages
          /\ fetch' = [fetch EXCEPT ![i] =
                [pc |-> "done", live |-> fetch[i].live]]
    /\ UNCHANGED <<records, nextId, now, response, ops, callVars, budget,
                   sideVars, invoked, pending, profile, hook, chatTable,
                   mounted, subscribed, events>>

\* the callback of the channel: setMessages(prev => [...prev, payload.new])
OnInsert ==
    /\ events # <<>>
    /\ messages' = Append(messages, Head(events))
    /\ events' = Tail(events)
    /\ UNCHANGED <<records, nextId, now, response, ops, callVars, budget,
                   sideVars, invoked, pending, profile, hook, chatTable,
                   mounted, fetch, subscribed>>

(***************************************************************************)
(* Specifications.                                                         *)
(***************************************************************************)
RecordActivity ==
    \E c \in Calls :
        \/ Read(c)
        \/ ReadFail(c)
        \/ Resume(c)
        \/ WriteUpdate(c)
        \/ WriteInsert(c)
        \/ WriteFail(c)
        \/ Return(c)

Next ==
    \/ Tick
    \/ RecordActivity
    \/ createProgressAction
    \/ createProgressFail
    \/ updateProgressAction
    \/ updateProgressReturn
    \/ updateProgressFail

Spec == Init /\ [][Next]_vars

(***************************************************************************)
(* The activity stream alone: the table holds what earlier activity or     *)
(* createProgressAction left there, and only recordActivity calls run.     *)
(***************************************************************************)
ActivitySeeds ==
    { [xp |-> 0, streak |-> 0, badges |-> <<>>],
      [xp |-> 30, streak |-> 3, badges |-> <<>>],
      [xp |-> 140, streak |-> 5, badges |-> <<"Learner">>] }

\* the time of the calls; the seeded row was last updated at time 0
ActivityTimes == {0, STREAK_WINDOW, 2 * STREAK_WINDOW + 1}

SeedRow(p) ==
    [id |-> 1, userId |-> "u1", lessonId |-> NoLesson, xp |-> p.xp,
     streak |-> p.streak, badges |-> p.badges, createdAt |-> 0, updatedAt |-> 0]

InitActivity ==
    /\ \/ /\ records = [id \in RecordIds |-> Undefined]
          /\ nextId = 1
       \/ \E p \in ActivitySeeds :
             /\ records = [id \in RecordIds |->
                             IF id = 1 THEN SeedRow(p) ELSE Undefined]
             /\ nextId = 2
    /\ now \in ActivityTimes
    /\ pc = [c \in Calls |-> "idle"]
    /\ userId = [c \in Calls |-> "u1"]
    /\ lessonId = [c \in Calls |-> NoLesson]
    /\ existingProgress = [c \in Calls |-> Undefined]
    /\ updatedData = [c \in Calls |-> Undefined]
    /\ result = [c \in Calls |-> Undefined]
    /\ response = Undefined
    /\ ops = 0
    /\ budget = MaxCalls
    /\ lessons = Lessons
    /\ nextLesson = Cardinality(Lessons) + 1
    /\ stmts = [c \in Calls |-> NoStmts]
    /\ days = [u \in Users \cup {EmptyUser} |-> {}]
    /\ submission = Undefined
    /\ Elsewhere

NextActivity ==
    \/ RecordActivity

SpecActivity == InitActivity /\ [][NextActivity]_vars

(***************************************************************************)
(* Calls that do not overlap: a call starts when no other call is between  *)
(* its select and its write.  The table holds rows of earlier activity.    *)
(***************************************************************************)
\* no call in flight, nothing invoked yet
Quiet ==
    /\ pc = [c \in Calls |-> "idle"]
    /\ userId = [c \in Calls |-> "u1"]
    /\ lessonId = [c \in Calls |-> NoLesson]
    /\ existingProgress = [c \in Calls |-> Undefined]
    /\ updatedData = [c \in Calls |-> Undefined]
    /\ result = [c \in Calls |-> Undefined]
    /\ response = Undefined
    /\ ops = 0
    /\ lessons = Lessons
    /\ nextLesson = Cardinality(Lessons) + 1
    /\ stmts = [c \in Calls |-> NoStmts]
    /\ days = [u \in Users \cup {EmptyUser} |-> {}]
    /\ submission = Undefined
    /\ Elsewhere

StoredRow(i, u, p, t) ==
    [id |-> i, userId |-> u, lessonId |-> p.lessonId, xp |-> p.xp,
     streak |-> p.streak, badges |-> p.badges, createdAt |-> 0, updatedAt |-> t]

\* the owners of the two stored rows and the times of their last update
SequentialOwners == {<<"u1", "u1">>, <<"u1", "u2">>}
SequentialUpdates == {<<0, 1>>, <<1, 0>>, <<1, 1>>}

\* the time of the calls, after the last update of the stored rows
SequentialTimes == {t + 1 : t \in ActivityTimes}

InitSequential ==
    /\ \/ /\ records = [id \in RecordIds |-> Undefined]
          /\ nextId = 1
       \/ \E p \in ProgressInputs :
             /\ records = [id \in RecordIds |->
                             IF id = 1 THEN StoredRow(1, "u1", p, 0)
                             ELSE Undefined]
             /\ nextId = 2
       \/ \E p, q \in ProgressInputs, o \in SequentialOwners,
             t \in SequentialUpdates :
             /\ records = [id \in RecordIds |->
                             IF id = 1 THEN StoredRow(1, o[1], p, t[1])
                             ELSE IF id = 2 THEN StoredRow(2, o[2], q, t[2])
                             ELSE Undefined]
             /\ nextId = 3
    /\ now \in SequentialTimes
    /\ budget = MaxCalls
    /\ Quiet

\* no other call is between its select and its write
Alone(c) == \A d \in Calls \ {c} : pc[d] \notin {"select", "write"}

ReadAlone(c) == Alone(c) /\ Read(c)

ReadFailAlone(c) == Alone(c) /\ ReadFail(c)

NextSequential ==
    \E c \in Calls :
        \/ ReadAlone(c)
        \/ ReadFailAlone(c)
        \/ Resume(c)
        \/ WriteUpdate(c)
        \/ WriteInsert(c)
        \/ WriteFail(c)
        \/ Return(c)

SpecSequential == InitSequential /\ [][NextSequential]_vars

(***************************************************************************)
(* The activity stream from an empty table, as time passes: calls that do  *)
(* not overlap, and the clock.                                             *)
(***************************************************************************)
InitStream ==
    /\ records = [id \in RecordIds |-> Undefined]
    /\ nextId = 1
    /\ now = 0
    /\ budget = MaxCalls
    /\ Quiet

NextStream ==
    \/ Tick
    \/ NextSequential

SpecStream == InitStream /\ [][NextStream]_vars

(***************************************************************************)
(* One learner from an empty table: recordActivity calls of one user, in   *)
(* any interleaving, long enough to reach the first badge threshold.       *)
(***************************************************************************)
InitBadges ==
    /\ records = [id \in RecordIds |-> Undefined]
    /\ nextId = 1
    /\ now = 0
    /\ budget = MaxAwards
    /\ Quiet

ReadLearner(c) ==
    /\ FreeSlot(c)
    /\ ops < budget
    /\ IF LatestRows("u1") = {}
       THEN ReadWith(c, "u1", NoLesson, Undefined)
       ELSE \E id \in LatestRows("u1") : ReadWith(c, "u1", NoLesson, records[id])

NextBadges ==
    \E c \in Calls :
        \/ ReadLearner(c)
        \/ Resume(c)
        \/ WriteUpdate(c)
        \/ WriteInsert(c)
        \/ WriteFail(c)
        \/ Return(c)

SpecBadges == InitBadges /\ [][NextBadges]_vars

(***************************************************************************)
(* One chat page and the senders of messages.                              *)
(***************************************************************************)
NextChat ==
    \/ sendMessageAction
    \/ ChatMount
    \/ ChatRerun
    \/ ChatCleanup
    \/ ChatUnmount
    \/ ChannelSubscribed
    \/ FetchSelect
    \/ FetchError
    \/ FetchReturn
    \/ OnInsert

SpecChat == Init /\ [][NextChat]_vars

(***************************************************************************)
(* Requests to the Stripe webhook, which may overlap, and the server       *)
(* actions on profiles called directly.                                    *)
(***************************************************************************)
NextWebhook ==
    \/ WebhookPost
    \/ WebhookCustomerFail
    \/ WebhookSubscription
    \/ WebhookSubscriptionFail
    \/ WebhookReturn
    \/ updateProfileAction
    \/ updateProfileFail
    \/ updateProfileByStripeCustomerIdAction
    \/ updateProfileByStripeCustomerIdFail
    \/ updateStripeCustomerAction
    \/ updateStripeCustomerFail
    \/ manageSubscriptionStatusChangeAction
    \/ manageSubscriptionStatusChangeFail

SpecWebhook == Init /\ [][NextWebhook]_vars

(***************************************************************************)
(* Two recordActivity calls, which may overlap, as time passes and as      *)
(* createProgressAction stores rows between their steps.                   *)
(***************************************************************************)
NextClock ==
    \/ Tick
    \/ createProgressAction
    \/ createProgressFail
    \/ \E c \in Calls :
          \/ Read(c)
          \/ ReadFail(c)
          \/ Resume(c)
          \/ WriteUpdate(c)
          \/ WriteInsert(c)
          \/ WriteFail(c)

SpecClock == Init /\ [][NextClock]_vars

(***************************************************************************)
(* The progress CRUD actions on an empty table or on a stored row.         *)
(***************************************************************************)
InitCrud ==
    /\ \/ /\ records = [id \in RecordIds |-> Undefined]
          /\ nextId = 1
       \/ \E p \in ProgressInputs :
             /\ records = [id \in RecordIds |->
                             IF id = 1 THEN StoredRow(1, "u1", p, 0)
                             ELSE Undefined]
             /\ nextId = 2
    /\ now \in SequentialTimes
    /\ budget = MaxOps
    /\ Quiet

NextCrud ==
    \/ createProgressAction
    \/ createProgressFail
    \/ getProgressByUserIdAction
    \/ getProgressFail
    \/ updateProgressAction
    \/ updateProgressReturn
    \/ updateProgressFail
    \/ AuthUpdateProgressAction
    \/ AuthUpdateProgressReturn
    \/ AuthUpdateProgressFail

SpecCrud == InitCrud /\ [][NextCrud]_vars

(***************************************************************************)
(* Exercise submissions and recordActivity calls.                          *)
(***************************************************************************)
NextSubmit ==
    \/ submitExerciseAction
    \/ submitExerciseFail
    \/ handleSubmit
    \/ handleSubmitFail
    \/ RecordActivity

SpecSubmit == Init /\ [][NextSubmit]_vars

(***************************************************************************)
(* recordActivity calls with and without a userId.                         *)
(***************************************************************************)
NextValidation ==
    \E c \in Calls :
        \/ ReadEmpty(c)
        \/ Read(c)
        \/ ReadFail(c)
        \/ Resume(c)
        \/ WriteUpdate(c)
        \/ WriteInsert(c)
        \/ WriteFail(c)
        \/ Return(c)

SpecValidation == InitActivity /\ [][NextValidation]_vars

(***************************************************************************)
(* recordActivity calls while lessons are deleted.                         *)
(***************************************************************************)
InitDelete ==
    /\ \E p \in ProgressInputs :
          records = [id \in RecordIds |->
                       IF id = 1 THEN StoredRow(1, "u1", p, 0) ELSE Undefined]
    /\ nextId = 2
    /\ now \in SequentialTimes
    /\ budget = MaxCalls
    /\ Quiet

NextDelete ==
    \/ RecordActivity
    \/ createLessonAction
    \/ createLessonFail
    \/ deleteLessonAction
    \/ deleteLessonFail

SpecDelete == InitDelete /\ [][NextDelete]_vars

(***************************************************************************)
(* Properties of recordActivity.  A call has written when its update or    *)
(* insert returned a row; prior is the row its select returned; the time   *)
(* of the call is the now it put into updatedData.                         *)
(***************************************************************************)
Wrote(c) == pc[c] = "done" /\ result[c].isSuccess /\ result[c].data # Undefined

HadPrior(c) == Wrote(c) /\ existingProgress[c] # Undefined

TimeDiff(c) == updatedData[c].updatedAt - existingProgress[c].updatedAt

Hour == 60 * 60 * 1000

\* C1: the step that completes a call with a row stores that row, and its
\* xp is the xp of the row the call read plus 10, or 10 when it read none.
C1_XpPlusTen ==
    [][\A c \in Calls :
          (pc[c] = "write" /\ pc'[c] = "done" /\ result'[c].isSuccess
             /\ result'[c].data # Undefined)
          => /\ result'[c].data.xp =
                  IF existingProgress[c] = Undefined THEN 10
                  ELSE existingProgress[c].xp + 10
             /\ records'[result'[c].data.id] = result'[c].data]_vars

C1_Witness ==
    \E c \in Calls :
        /\ HadPrior(c)
        /\ existingProgress[c].xp = 40
        /\ result[c].data.xp = 50
        /\ records[result[c].data.id].xp = 50

\* C2: the badges a call returns contain Learner from 50 xp, Scholar from
\* 150 xp and Master from 300 xp, whatever the row it read held.
C2_BadgesByThreshold ==
    \A c \in Calls :
        Wrote(c) =>
            /\ result[c].data.xp >= 50 => Includes(result[c].data.badges, "Learner")
            /\ result[c].data.xp >= 150 => Includes(result[c].data.badges, "Scholar")
            /\ result[c].data.xp >= 300 => Includes(result[c].data.badges, "Master")

\* the row read was past the Learner threshold without holding the badge
C2_Witness ==
    \E c \in Calls :
        /\ HadPrior(c)
        /\ existingProgress[c].xp >= 50
        /\ ~Includes(existingProgress[c].badges, "Learner")
        /\ Includes(result[c].data.badges, "Learner")
        /\ Includes(result[c].data.badges, "Master")

\* C3: every badge of the row a call read is in the badges it writes.
C3_BadgesSuperset ==
    \A c \in Calls :
        HadPrior(c) =>
            Elements(existingProgress[c].badges) \subseteq Elements(result[c].data.badges)

C3_Witness ==
    \E c \in Calls :
        /\ HadPrior(c)
        /\ existingProgress[c].badges = <<"beginner">>
        /\ result[c].data.badges = <<"beginner", "Learner">>

\* C4: the xp stored in a record never decreases from one persisted state
\* to the next, also when calls overlap.
C4_XpNeverDecreases ==
    [][\A id \in RecordIds :
          (records[id] # Undefined /\ records'[id] # Undefined)
          => records'[id].xp >= records[id].xp]_vars

\* C5: a badge stored in a record is in every later persisted state of it,
\* also when calls overlap.
C5_BadgesNeverRevoked ==
    [][\A id \in RecordIds :
          (records[id] # Undefined /\ records'[id] # Undefined)
          => Elements(records[id].badges) \subseteq Elements(records'[id].badges)]_vars

\* C6: two calls that read the same row and both wrote leave the stored xp
\* at the xp they read plus 10, not plus 20, and both report success.
C6_LostUpdate ==
    \A c, d \in Calls :
        (c # d /\ HadPrior(c) /\ HadPrior(d)
           /\ existingProgress[c] = existingProgress[d])
        => /\ records[existingProgress[c].id].xp = existingProgress[c].xp + 10
           /\ result[c].isSuccess /\ result[d].isSuccess
           /\ result[c].data.xp = result[d].data.xp

C6_Witness ==
    \E c, d \in Calls :
        /\ c # d /\ HadPrior(c) /\ HadPrior(d)
        /\ existingProgress[c] = existingProgress[d]
        /\ records[existingProgress[c].id].xp = existingProgress[c].xp + 10

\* C7: a call for a user without a progress record yields streak 1.
C7_FirstStreak ==
    \A c \in Calls :
        (Wrote(c) /\ existingProgress[c] = Undefined)
        => result[c].data.streak = 1

C7_Witness ==
    \E c \in Calls :
        /\ Wrote(c) /\ existingProgress[c] = Undefined
        /\ RowsOf(userId[c]) = {result[c].data.id}

\* C8: a call less than 24 hours after the last update of the row it read
\* yields the streak of that row plus 1.
C8_StreakIncrement ==
    \A c \in Calls :
        (HadPrior(c) /\ TimeDiff(c) < 24 * Hour)
        => result[c].data.streak = existingProgress[c].streak + 1

C8_Witness ==
    \E c \in Calls :
        /\ HadPrior(c) /\ TimeDiff(c) > 0 /\ TimeDiff(c) < 24 * Hour
        /\ existingProgress[c].streak = 3
        /\ result[c].data.streak = 4

\* C9: a call more than 48 hours after the last update of the row it read
\* yields streak 1.
C9_StreakReset ==
    \A c \in Calls :
        (HadPrior(c) /\ TimeDiff(c) > 48 * Hour) => result[c].data.streak = 1

C9_Witness ==
    \E c \in Calls :
        /\ HadPrior(c) /\ TimeDiff(c) > 48 * Hour
        /\ existingProgress[c].streak = 5
        /\ result[c].data.streak = 1

\* C10: a call more than 24 and at most 48 hours after the last update of
\* the row it read keeps the streak of that row, while xp and updatedAt
\* change.
C10_StreakHeld ==
    \A c \in Calls :
        (HadPrior(c) /\ TimeDiff(c) > 24 * Hour /\ TimeDiff(c) <= 48 * Hour)
        => /\ result[c].data.streak = existingProgress[c].streak
           /\ result[c].data.xp # existingProgress[c].xp
           /\ result[c].data.updatedAt # existingProgress[c].updatedAt

C10_Witness ==
    \E c \in Calls :
        /\ HadPrior(c) /\ TimeDiff(c) = 48 * Hour
        /\ existingProgress[c].streak = 3
        /\ result[c].data.streak = 3
        /\ result[c].data.xp = existingProgress[c].xp + 10

(***************************************************************************)
(* Sequential calls, failures, statements and isolation.                   *)
(***************************************************************************)
\* the xp of the row a call read, 0 when it read none
PriorXp(c) == IF existingProgress[c] = Undefined THEN 0 ELSE existingProgress[c].xp

\* call d started after call c had completed: it read the row c returned
After(c, d) ==
    /\ c # d
    /\ Wrote(c) /\ Wrote(d)
    /\ existingProgress[d] = result[c].data

\* C11: the rule is not idempotent: of two successful calls for a user, the
\* second starting after the first has completed, the second returns and
\* stores the xp the first call read plus 20.
C11_NotIdempotent ==
    \A c, d \in Calls :
        After(c, d)
        => /\ result[d].data.xp = PriorXp(c) + 2 * XP_PER_EXERCISE
           /\ records[result[d].data.id].xp = PriorXp(c) + 2 * XP_PER_EXERCISE

C11_Witness ==
    \E c, d \in Calls :
        /\ After(c, d)
        /\ PriorXp(c) = 40
        /\ records[result[d].data.id].xp = 60

\* call c completes in this step
Completes(c) == pc[c] # "done" /\ pc'[c] = "done"

\* C12: a call whose select or write is rejected returns the failure result
\* and leaves the persisted records as they were.
C12_FailureKeepsRecords ==
    [][\A c \in Calls :
          (Completes(c) /\ ~result'[c].isSuccess)
          => /\ result'[c] = Failure("Failed to update progress with gamification")
             /\ records' = records
             /\ nextId' = nextId]_vars

C12_Witness ==
    \E c \in Calls :
        /\ pc[c] = "done"
        /\ ~result[c].isSuccess
        /\ existingProgress[c] # Undefined
        /\ stmts[c].update = 1
        /\ records[existingProgress[c].id] = existingProgress[c]

\* C13: a call whose row was deleted between its select and its write
\* returns a failure (record not found), never a success.
C13_DeletedRowFails ==
    [][\A c \in Calls :
          (/\ Completes(c)
           /\ existingProgress[c] # Undefined
           /\ records[existingProgress[c].id] = Undefined)
          => ~result'[c].isSuccess]_vars

\* C14: a call with a missing or empty userId returns a structured failure
\* result (success flag false, with a message), and no progress record is
\* ever persisted for the empty userId.
C14_EmptyUserRejected ==
    /\ RowsOf(EmptyUser) = {}
    /\ \A c \in Calls :
          (pc[c] = "done" /\ userId[c] = EmptyUser)
          => /\ DOMAIN result[c] = {"isSuccess", "message", "data"}
             /\ ~result[c].isSuccess
             /\ result[c].message
                   = "Failed to update progress with gamification"
             /\ result[c].data = Undefined

\* a call with the empty userId has sent its insert and got the failure
C14_Witness ==
    \E c \in Calls :
        /\ pc[c] = "done"
        /\ userId[c] = EmptyUser
        /\ stmts[c] = [select |-> 1, update |-> 0, insert |-> 1]
        /\ ~result[c].isSuccess

\* the select of call c returned
ReadSucceeded(c) == updatedData[c] # Undefined

\* C15: every call sends exactly one select and, when the select succeeds,
\* exactly one write, an update or an insert and never both; when the select
\* fails no write is sent.
C15_OneReadOneWrite ==
    \A c \in Calls :
        /\ pc[c] = "idle" => stmts[c] = NoStmts
        /\ pc[c] \in {"select", "write"}
              => stmts[c] = [NoStmts EXCEPT !.select = 1]
        /\ pc[c] = "done"
           => /\ stmts[c].select = 1
              /\ IF ReadSucceeded(c)
                 THEN stmts[c].update + stmts[c].insert = 1
                 ELSE stmts[c].update = 0 /\ stmts[c].insert = 0

C15_Witness ==
    \E c, d \in Calls :
        /\ pc[c] = "done" /\ pc[d] = "done"
        /\ stmts[c] = [select |-> 1, update |-> 0, insert |-> 1]
        /\ stmts[d] = [select |-> 1, update |-> 1, insert |-> 0]

\* the rows other than id are as they were
OthersKept(id) == \A o \in RecordIds \ {id} : records'[o] = records[o]

\* C16: for calls that do not overlap, a successful call inserts a row only
\* when its user has none; otherwise it updates in place the row of the user
\* with the latest updatedAt (same id) and the user keeps the rows it had.
C16_InsertOnlyWhenNone ==
    [][\A c \in Calls :
          (Completes(c) /\ result'[c].isSuccess)
          => LET u == userId[c]
                 row == result'[c].data
             IN  IF RowsOf(u) = {}
                 THEN /\ row.id = nextId
                      /\ records[nextId] = Undefined
                      /\ records'[nextId] = row
                      /\ row.userId = u
                      /\ OthersKept(nextId)
                 ELSE /\ row.id \in RowsOf(u)
                      /\ \A o \in RowsOf(u) :
                            records[o].updatedAt <= records[row.id].updatedAt
                      /\ records'[row.id] = row
                      /\ row.userId = u
                      /\ OthersKept(row.id)
                      /\ nextId' = nextId]_vars

C16_Witness ==
    \E c \in Calls :
        /\ Wrote(c)
        /\ RowsOf(userId[c]) = {1, 2}
        /\ result[c].data.id = 2
        /\ records[2] = result[c].data
        /\ records[1].updatedAt < existingProgress[c].updatedAt

\* C17: a call for user u leaves the rows of every other user as they were,
\* and no step changes the owner of a row.
C17_OtherUsersUntouched ==
    [][/\ \A id \in RecordIds :
            (records[id] # Undefined /\ records'[id] # Undefined)
            => records'[id].userId = records[id].userId
       /\ \A c \in Calls :
            Completes(c)
            => \A id \in RecordIds :
                  /\ (records[id] # Undefined /\ records[id].userId # userId[c])
                     => records'[id] = records[id]
                  /\ (records[id] = Undefined /\ records'[id] # Undefined)
                     => records'[id].userId = userId[c]]_vars

C17_Witness ==
    \E c \in Calls :
        /\ HadPrior(c)
        /\ userId[c] = "u2"
        /\ records[existingProgress[c].id] = result[c].data
        /\ \E id \in RowsOf("u1") : records[id].xp = 30

\* C18: the update of an existing row replaces its lessonId only when the
\* call supplied a lessonId, and keeps its id, owner and createdAt.
C18_UpdateKeepsIdentity ==
    [][\A c \in Calls :
          (/\ Completes(c) /\ result'[c].isSuccess
           /\ existingProgress[c] # Undefined
           /\ records[existingProgress[c].id] # Undefined)
          => LET old == records[existingProgress[c].id]
                 new == records'[existingProgress[c].id]
             IN  /\ new.lessonId = IF lessonId[c] # NoLesson
                                   THEN lessonId[c] ELSE old.lessonId
                 /\ new.id = old.id
                 /\ new.userId = old.userId
                 /\ new.createdAt = old.createdAt]_vars

C18_Witness ==
    \E c \in Calls :
        /\ HadPrior(c)
        /\ lessonId[c] = NoLesson
        /\ existingProgress[c].lessonId = "l1"
        /\ records[existingProgress[c].id] = result[c].data
        /\ result[c].data.lessonId = "l1"
        /\ result[c].data.xp = existingProgress[c].xp + XP_PER_EXERCISE

\* C19: the streak of a record never exceeds the number of distinct days on
\* which its user recorded an activity.
C19_StreakWithinDays ==
    \A id \in RecordIds :
        records[id] # Undefined
        => records[id].streak <= Cardinality(days[records[id].userId])

\* the xp of the latest row of user u, 0 when u has none
StoredXp(u) ==
    IF LatestRows(u) = {} THEN 0
    ELSE records[CHOOSE id \in LatestRows(u) : TRUE].xp

\* C20: every successful exercise submission comes with a progress update:
\* the stored xp of the submitting user is 10 higher after it.
C20_SubmissionAwardsXp ==
    [][\A u \in Users :
          (/\ submission' # submission
           /\ submission'.userId = u
           /\ submission'.result.isSuccess)
          => StoredXp(u)' = StoredXp(u) + XP_PER_EXERCISE]_vars

(***************************************************************************)
(* Submissions, the progress CRUD actions, deletion, webhook and chat.     *)
(***************************************************************************)
\* the answer a user response carries
Carried(userResponse) ==
    IF userResponse.type = "string" THEN userResponse.value
    ELSE userResponse.response

\* the submission is by a signed-in user, for an exercise that has a
\* correct answer, and the select of the exercise was not rejected
Scored ==
    /\ submission # Undefined
    /\ submission.userId # NoAuth
    /\ submission.exerciseId \in DOMAIN Exercises
    /\ "correctAnswer" \in DOMAIN Exercises[submission.exerciseId]
    /\ submission.result.message
          # "Failed to submit exercise due to a server error"

\* C21: a submission by a signed-in user whose answer equals the stored
\* correct answer returns success, "Exercise submitted successfully" and
\* score 100, also when the answer is carried by an object.
C21_CorrectAnswerScores100 ==
    (/\ Scored
     /\ Carried(submission.userResponse)
           = Exercises[submission.exerciseId].correctAnswer)
    => /\ submission.result.isSuccess
       /\ submission.result.message = "Exercise submitted successfully"
       /\ submission.result.data.score = 100

\* a progress CRUD action returns in this step: at once, or when the
\* database has answered the update statement it had built
Returns ==
    \/ ops' = ops + 1 /\ pending' = pending
    \/ \E c \in Calls : pending[c] # Undefined /\ pending'[c] = Undefined

\* the failure message the tests of the progress actions expect
ExpectedMessage(action) ==
    IF action = "createProgressAction" THEN "Failed to create progress"
    ELSE IF action = "getProgressByUserIdAction" THEN "Failed to get progress"
    ELSE "Failed to update progress"

\* C22: when the database rejects the statement of createProgressAction,
\* getProgressByUserIdAction or updateProgressAction, the action returns a
\* failure without data and with the message "Failed to create progress",
\* "Failed to get progress" or "Failed to update progress", and no record
\* is changed.
C22_RejectedCrudMessages ==
    [][(/\ Returns
        /\ invoked'.rejected
        /\ invoked'.action \in {"createProgressAction",
                                "getProgressByUserIdAction",
                                "updateProgressAction"})
       => /\ response' = Failure(ExpectedMessage(invoked'.action))
          /\ records' = records
          /\ nextId' = nextId]_vars

\* C23: updateProgressAction with auth() changes a record only when it
\* belongs to the caller: on a record of another user it changes nothing and
\* returns "Progress record not found or unauthorized", and without a
\* session it changes nothing.
C23_OnlyOwnerUpdates ==
    [][(Returns /\ invoked'.action = "AuthUpdateProgressAction"
        /\ ~invoked'.rejected)
       => LET caller == invoked'.caller
              id == invoked'.id
          IN  /\ \A r \in RecordIds :
                    records'[r] # records[r] => records[r].userId = caller
              /\ (/\ caller # NoAuth
                  /\ records[id] # Undefined
                  /\ records[id].userId # caller)
                 => response' = Failure(
                       "Progress record not found or unauthorized")
              /\ caller = NoAuth => records' = records]_vars

\* C24: whatever the interleaving of the calls for a user, the user has at
\* most one progress record.
C24_OneRecordPerUser ==
    \A u \in Users : Cardinality(RowsOf(u)) <= 1

\* C25: the streak a successful call returns is at least 1, whatever the
\* row it read, a row with streak 0 included.
C25_StreakAtLeastOne ==
    \A c \in Calls : Wrote(c) => result[c].data.streak >= 1

\* the badges of the latest row of user u, none when u has no row
StoredBadges(u) ==
    IF LatestRows(u) = {} THEN {}
    ELSE Elements(records[CHOOSE id \in LatestRows(u) : TRUE].badges)

\* C27: the deletion of a lesson does not lower the xp or remove a badge of
\* the prior state the next call of any user reads.
C27_DeleteKeepsProgress ==
    [][lessons \ lessons' # {}
       => \A u \in Users :
             /\ StoredXp(u)' >= StoredXp(u)
             /\ StoredBadges(u) \subseteq StoredBadges(u)']_vars

\* the badge names of the threshold table
BadgeNames == {BADGE_THRESHOLDS[i].badgeName : i \in 1..Len(BADGE_THRESHOLDS)}

\* C26: from an empty table and with recordActivity calls only, in any
\* interleaving, every stored row holds exactly the badges whose threshold
\* is at most its xp.
C26_BadgesIffThreshold ==
    \A id \in RecordIds :
        records[id] # Undefined
        => /\ \A i \in 1..Len(BADGE_THRESHOLDS) :
                 Includes(records[id].badges, BADGE_THRESHOLDS[i].badgeName)
                 <=> records[id].xp >= BADGE_THRESHOLDS[i].threshold
           /\ Elements(records[id].badges) \subseteq BadgeNames

\* a row past the first threshold, while another row of the user is below it
C26_Witness ==
    \E id, other \in RecordIds :
        /\ records[id] # Undefined /\ records[other] # Undefined
        /\ records[id].xp >= 50
        /\ records[id].badges = <<"Learner">>
        /\ records[other].xp < 50
        /\ records[other].badges = <<>>

\* the signature of request h verifies against the configured secret
Verified(h) ==
    /\ h.sig # NoSignature
    /\ h.secret = WebhookSecret
    /\ h.sig.key = h.secret
    /\ h.sig.body = h.body

\* the webhook takes a step of request r and leaves it received or answered
Handles(r) == hook'[r] # hook[r] /\ hook'[r] # NoHook

\* C28: a step of the webhook changes a profile only for a request whose
\* signature verifies against the configured secret; a request with a
\* missing signature, a missing secret or a failing verification is
\* answered 400 and updates no profile.
C28_VerifiedBeforeUpdate ==
    [][\A r \in Calls :
          Handles(r)
          => /\ profile' # profile => Verified(hook'[r])
             /\ ~Verified(hook'[r])
                => /\ hook'[r].pc = "done"
                   /\ hook'[r].reply.status = 400
                   /\ ~hook'[r].wrote
                   /\ profile' = profile]_vars

\* a verified request has changed the profile of u1 and a request signed
\* with another key has been answered 400
C28_Witness ==
    \E r, q \in Calls :
        /\ hook[r].pc = "done" /\ hook[q].pc = "done"
        /\ Verified(hook[r]) /\ hook[r].wrote
        /\ hook[r].body.userId = "u1"
        /\ profile["u1"].stripeCustomerId = "cus_1"
        /\ ~Verified(hook[q])
        /\ hook[q].sig # NoSignature
        /\ hook[q].body.type = "checkout.session.completed"
        /\ hook[q].body.userId = "u1" /\ hook[q].body.customer = "cus_1"
        /\ hook[q].reply.status = 400

\* C29: when the webhook answers a checkout.session.completed event with
\* status 400 or 500, no statement of the request has changed a profile.
C29_ErrorLeavesProfile ==
    \A r \in Calls :
        (/\ hook[r].pc = "done"
         /\ hook[r].body.type = "checkout.session.completed"
         /\ hook[r].reply.status \in {400, 500})
        => ~hook[r].wrote

\* the number of times the message with this id is in the displayed list
Shown(id) == Cardinality({i \in 1..Len(messages) : messages[i].id = id})

\* C30: once every fetch of the page has completed, the subscription is
\* active and every published INSERT has been delivered, every message of
\* the table is in the displayed list exactly once.
C30_EveryMessageShownOnce ==
    (/\ mounted /\ subscribed /\ events = <<>>
     /\ \A i \in 1..Len(fetch) : fetch[i].pc = "done")
    => \A i \in 1..Len(chatTable) : Shown(chatTable[i].id) = 1

=============================================================================
